---- MODULE Spec2Model ----
(***************************************************************************)
(* Personalized-media generation pipeline of khayalkids_backend.            *)
(*                                                                         *)
(* One generation job (a Preview or a FullBook) is followed from the       *)
(* request handler that creates its record, through the background task    *)
(* (generate_preview / generate_full_book) and the fan-outs of             *)
(* process_and_swap_faces, to the end of the task.  A second specification *)
(* (SwapSpec) follows one call of FaceSwapService.swap_face poll by poll.  *)
(***************************************************************************)
EXTENDS Integers, FiniteSets, Sequences, TLC

(***************************************************************************)
(* Program constants                                                       *)
(***************************************************************************)
MAX_RETRIES == 30
POLL_INTERVAL == 5
PREVIEW_PAGES_COUNT == 4

(***************************************************************************)
(* Bounds of the model                                                     *)
(***************************************************************************)
\* largest number of embedded pictures in a template
MaxDay == 9
MsgExtra == 2
NumTasks == 2
NumParts == 2
MaxLimit == 3
MaxRegions == 2
MaxImages == 2
MaxSide == 6
MaxOrders == 3
NumCallers == 2
\* number of slides of a template
TemplateSlides == 5

\* The pictures a template may embed, as (slide index, shape id): two on
\* pages covered by the preview, two on later pages.
Pictures == {<<0, 1>>, <<3, 2>>, <<4, 1>>, <<4, 2>>}

Templates == {d \in SUBSET Pictures : Cardinality(d) <= MaxImages}

Kinds == {"Preview", "FullBook"}

SwapErrors == {"Invalid", "Provider", "Timeout", "Transport"}

VARIABLES
    kind,               \* variant of the job: Preview or FullBook
    doc,                \* pictures embedded in the template of the job
    prevStatus,         \* FullBook: preview_status of the preview it is ordered from
    pc,                 \* position of the handler / background task
    status,             \* persisted preview_status / generation_status ("none": no row)
    errorMessage,       \* persisted error_message
    swappedPaths,       \* persisted swapped_images_paths
    charactersCompleted,\* persisted characters_completed (FullBook)
    exc,                \* exception raised by the current run ("none": none so far)
    extracted,          \* records returned by extract_images_from_slides
    matchRes,           \* result of _process_single_image per picture
    swap,               \* swap_face task per picture
    session,            \* aiohttp.ClientSession of the job: "none", "open", "closed"
    comp,               \* composite_face task per picture
    metadata,           \* image_metadata returned by process_and_swap_faces
    cbCalls,            \* number of invocations of progress_callback
    cbCount,            \* argument of the last invocation of progress_callback
    docReplaced,        \* pictures whose image bytes were replaced in the document
    notified,           \* send_notifications_for_preview was run
    allMetadata,        \* FullBook: entries taken over from the preview (all_metadata)
    finalDoc,           \* FullBook: persisted final_pptx_path / final_pdf_path ("none": NULL)
    swTask,             \* SwapSpec: the swap_face call
    swPolls,            \* SwapSpec: status requests sent so far
    swSlept,            \* SwapSpec: seconds slept so far
    swLast,             \* SwapSpec: status returned by the last poll
    rdNow,              \* ReadSpec: current time, in days
    rdPreview,          \* ReadSpec: row of the previews table for the token
    rdResp,             \* ReadSpec: answer of the last lookup by token
    erKind,             \* ErrSpec: variant of the failing job
    erPc,               \* ErrSpec: position of the failing run
    erMsg,              \* ErrSpec: str(e) of the exception caught
    erStored,           \* ErrSpec: persisted error_message
    isRef,              \* IsoSpec: averaged_reference of the job
    isPc,               \* IsoSpec: position of isolate_protagonist_face per image
    isRegions,          \* IsoSpec: len(person_regions) per image
    isIdx,              \* IsoSpec: index of the next person region per image
    isBest,             \* IsoSpec: best_distance and best_match_idx per image
    isCompared,         \* IsoSpec: embedding distances computed per image
    isTouched,          \* IsoSpec: paths written or deleted by each call
    isFiles,            \* IsoSpec: paths present in the extracted directory
    isResult,           \* IsoSpec: value returned per image
    isErr,              \* IsoSpec: error met by each call ("none": none)
    isIdeal,            \* IsoSpec: least (region, reference) distance seen per image
    isJob,              \* IsoSpec: process_and_swap_faces after the matching fan-in
    prExtracted,        \* PairSpec: extracted_images, in list order
    prPc,               \* PairSpec: position of process_and_swap_faces
    prDone,             \* PairSpec: tasks of the current fan-out, as they completed
    prResults,          \* PairSpec: value of each _process_single_image task
    prValid,            \* PairSpec: valid_results
    prSwapOut,          \* PairSpec: value of each swap_face task
    prSwapResults,      \* PairSpec: swap_results
    prFinalOut,         \* PairSpec: value of each composite_face call
    prMetadata,         \* PairSpec: image_metadata
    prFiles,            \* PairSpec: files of the job, each with the images it derives from
    dcDoc,              \* DocSpec: the presentation, a list of slides of shapes
    dcMax,              \* DocSpec: max_slides passed to the extraction
    dcPc,               \* DocSpec: "loaded", "extracted" or "replaced"
    dcExtracted,        \* DocSpec: list returned by extract_images_from_slides
    dcSkipped,          \* DocSpec: pictures whose extraction raised
    dcMapping,          \* DocSpec: image_metadata passed to the replacement
    dcBlob,             \* DocSpec: bytes of each image part of the package
    rnPages,            \* RenderSpec: number of slides of the presentation
    rnMax,              \* RenderSpec: max_slides
    rnPc,               \* RenderSpec: position in convert_slides_to_images
    rnFiles,            \* RenderSpec: files of the output directory
    rnImages,           \* RenderSpec: number of pages returned by pdf2image
    rnIdx,              \* RenderSpec: index of the page being saved
    cpSide,             \* CropSpec: width and height of the image
    cpBox,              \* CropSpec: box of the person as the detector reports it
    cpPc,               \* CropSpec: "start", "detected", "accepted" or "rejected"
    cpRegion,           \* CropSpec: bbox of the person region
    cpCoords,           \* CropSpec: coordinates returned with the crop
    onOrders,           \* OrderSpec: order numbers of the orders table
    onPc,               \* OrderSpec: position of each create_order call
    onNumber            \* OrderSpec: order number generated by each call

jobVars == <<kind, doc, prevStatus, pc, status, errorMessage, swappedPaths,
             charactersCompleted, exc, extracted, matchRes, swap, session,
             comp, metadata, cbCalls, cbCount, docReplaced, notified,
             allMetadata, finalDoc>>
swVars == <<swTask, swPolls, swSlept, swLast>>
rdVars == <<rdNow, rdPreview, rdResp>>
erVars == <<erKind, erPc, erMsg, erStored>>
isVars == <<isRef, isPc, isRegions, isIdx, isBest, isCompared, isTouched,
            isFiles, isResult, isErr, isIdeal, isJob>>
prVars == <<prExtracted, prPc, prDone, prResults, prValid, prSwapOut,
            prSwapResults, prFinalOut, prMetadata, prFiles>>
dcVars == <<dcDoc, dcMax, dcPc, dcExtracted, dcSkipped, dcMapping, dcBlob>>
rnVars == <<rnPages, rnMax, rnPc, rnFiles, rnImages, rnIdx>>
cpVars == <<cpSide, cpBox, cpPc, cpRegion, cpCoords>>
onVars == <<onOrders, onPc, onNumber>>
xVars == <<rnVars, cpVars, onVars>>
auxVars == <<rdVars, erVars, isVars, prVars, dcVars, xVars>>
vars == <<jobVars, swVars, auxVars>>

(***************************************************************************)
(* FaceSwapService.swap_face                                               *)
(***************************************************************************)
NewTask == [st |-> "new", attempt |-> 0, err |-> "none"]
NoTask == [st |-> "na", attempt |-> 0, err |-> "none"]
TaskFailed(e) == [st |-> "err", attempt |-> 0, err |-> e]
TaskDone == [st |-> "ok", attempt |-> 0, err |-> "none"]

\* answers to the submit request: a task id, a payload without one, or a
\* transport error
SubmitResponses == {"task", "invalid", "error"}

\* answers to one status poll: status 1 with the result downloaded, status 1
\* with the download failing, status -1, any other status, a transport error
PollResponses == {"completed", "completed_nodl", "failed", "pending", "error"}

\* for attempt in range(MAX_RETRIES)
PollLoopContinues_Off(attempt) == attempt <= MAX_RETRIES
PollLoopContinues(attempt) == attempt < MAX_RETRIES

\* the task after the submit request
SubmitTask(resp) ==
    CASE resp = "task" -> [st |-> "polling", attempt |-> 0, err |-> "none"]
      [] resp = "invalid" -> TaskFailed("Invalid")
      [] OTHER -> TaskFailed("Transport")

\* the task after one iteration of the poll loop
PollTask(t, r) ==
    CASE r = "completed" -> TaskDone
      [] r = "completed_nodl" -> TaskFailed("Transport")
      [] r = "failed" -> TaskFailed("Provider")
      [] r = "error" -> TaskFailed("Transport")
      [] OTHER ->
           IF PollLoopContinues(t.attempt + 1)
           THEN [t EXCEPT !.attempt = t.attempt + 1]
           ELSE TaskFailed("Timeout")

(***************************************************************************)
(* Initial state                                                           *)
(***************************************************************************)
JobInit ==
    /\ kind \in Kinds
    /\ doc \in Templates
    /\ prevStatus \in {"completed", "processing", "failed"}
    /\ (kind = "Preview" => prevStatus = "processing")
    /\ pc = "absent"
    /\ status = "none"
    /\ errorMessage = "none"
    /\ swappedPaths = {}
    /\ charactersCompleted = 0
    /\ exc = "none"
    /\ extracted = {}
    /\ matchRes = [p \in Pictures |-> "na"]
    /\ swap = [p \in Pictures |-> NoTask]
    /\ session = "none"
    /\ comp = [p \in Pictures |-> "na"]
    /\ metadata = {}
    /\ cbCalls = 0
    /\ cbCount = 0
    /\ docReplaced = {}
    /\ notified = FALSE
    /\ allMetadata = {}
    /\ finalDoc = "none"

SwInit ==
    /\ swTask = NewTask
    /\ swPolls = 0
    /\ swSlept = 0
    /\ swLast = "none"

(***************************************************************************)
(* Helpers of the orchestrators                                            *)
(***************************************************************************)
\* an exception raised inside the try block reaches the except clause
Raise(e) ==
    /\ pc' = "handler"
    /\ exc' = e

\* list(prs.slides)[:max_slides] if max_slides else prs.slides
SlidesToProcess(max_slides) ==
    IF max_slides > 0
    THEN {s \in 0..(TemplateSlides - 1) : s < max_slides}
    ELSE 0..(TemplateSlides - 1)

\* the pictures extract_images_from_slides visits
ExtractFromSlides(d, max_slides) ==
    {p \in d : p[1] \in SlidesToProcess(max_slides)}

\* valid_results = [r for r in results if r is not None]
ValidResults == {p \in Pictures : matchRes[p] = "match"}

\* len(image_metadata), the argument of the progress callback
CallbackArg_Extracted(image_metadata) == Cardinality(extracted)
CallbackArg(image_metadata) == Cardinality(image_metadata)

\* the shapes whose blob _replace_in_shapes overwrites: those with an entry
\* in image_metadata, unless the replacement raised and was logged
ReplaceInShapes(d, image_metadata, failing) ==
    {p \in d : p \in image_metadata /\ p \notin failing}

\* PreviewRepository.update_status writes swapped_images_paths on every call:
\* NULL when the caller passes none, as the failure paths do
FailedUpdatePaths_Keep(paths) == paths
FailedUpdatePaths(paths) == {}

\* slide images written by convert_slides_to_images, as (page, 0)
SlideImages(max_slides) == {<<s, 0>> : s \in SlidesToProcess(max_slides)}

Started == pc \notin {"absent", "invalid", "rejected", "scheduled"}

(***************************************************************************)
(* Request handlers                                                        *)
(***************************************************************************)
\* POST /previews: the row is inserted with preview_status 'processing'; a
\* valid photo schedules generate_preview
CreatePreview ==
    /\ kind = "Preview"
    /\ pc = "absent"
    /\ status' = "processing"
    /\ \E is_valid \in BOOLEAN :
          pc' = IF is_valid THEN "scheduled" ELSE "invalid"
    /\ UNCHANGED <<kind, doc, prevStatus, errorMessage, swappedPaths,
                   charactersCompleted, exc, extracted, matchRes, swap,
                   session, comp, metadata, cbCalls, cbCount, docReplaced,
                   notified, allMetadata, finalDoc, swVars, auxVars>>

\* POST /previews with a photo that failed validation: the handler marks
\* the row failed and schedules nothing
RejectPhoto ==
    /\ pc = "invalid"
    /\ status' = "failed"
    /\ errorMessage' = "InvalidPhoto"
    /\ swappedPaths' = FailedUpdatePaths(swappedPaths)
    /\ pc' = "rejected"
    /\ UNCHANGED <<kind, doc, prevStatus, charactersCompleted, exc,
                   extracted, matchRes, swap, session, comp, metadata,
                   cbCalls, cbCount, docReplaced, notified, allMetadata,
                   finalDoc, swVars, auxVars>>

\* POST /orders: needs a completed preview; inserts the generated_books row
\* as 'queued' and schedules generate_full_book
CreateOrder ==
    /\ kind = "FullBook"
    /\ pc = "absent"
    /\ IF prevStatus = "completed"
       THEN /\ status' = "queued"
            /\ charactersCompleted' = 0
            /\ pc' = "scheduled"
       ELSE /\ pc' = "rejected"
            /\ UNCHANGED <<status, charactersCompleted>>
    /\ UNCHANGED <<kind, doc, prevStatus, errorMessage, swappedPaths, exc,
                   extracted, matchRes, swap, session, comp, metadata,
                   cbCalls, cbCount, docReplaced, notified, allMetadata,
                   finalDoc, swVars, auxVars>>

(***************************************************************************)
(* Stages before the fan-outs                                              *)
(***************************************************************************)
stageFrame == <<kind, doc, prevStatus, status, errorMessage, swappedPaths,
                charactersCompleted, extracted, matchRes, swap, session,
                comp, metadata, cbCalls, cbCount, docReplaced, notified,
                allMetadata, finalDoc, swVars, auxVars>>

\* generate_preview: directory, book, reference paths, template
PreviewSetup ==
    /\ kind = "Preview"
    /\ pc = "scheduled"
    /\ \/ /\ pc' = "cartoon"
          /\ exc' = exc
       \/ Raise("Setup")
    /\ UNCHANGED stageFrame

\* generate_preview: CartoonificationService.cartoonify_photo
Cartoonify ==
    /\ pc = "cartoon"
    /\ \/ /\ pc' = "text"
          /\ exc' = exc
       \/ Raise("Stylization")
    /\ UNCHANGED stageFrame

\* generate_full_book: mark_processing_started
MarkProcessingStarted ==
    /\ kind = "FullBook"
    /\ pc = "scheduled"
    /\ \/ /\ status' = "processing"
          /\ pc' = "lookup"
          /\ exc' = exc
       \/ /\ Raise("Persist")
          /\ status' = status
    /\ UNCHANGED <<kind, doc, prevStatus, errorMessage, swappedPaths,
                   charactersCompleted, extracted, matchRes, swap, session,
                   comp, metadata, cbCalls, cbCount, docReplaced, notified,
                   allMetadata, finalDoc, swVars, auxVars>>

\* generate_full_book: the preview must be completed, the book must exist
LookupPreview ==
    /\ pc = "lookup"
    /\ IF prevStatus # "completed"
       THEN Raise("NotReady")
       ELSE \/ /\ pc' = "copy"
               /\ exc' = exc
            \/ Raise("Setup")
    /\ UNCHANGED stageFrame

\* generate_full_book: the preview's swapped files are copied; all_metadata
\* stays empty
CopyPreviewImages ==
    /\ pc = "copy"
    /\ \/ /\ pc' = "text"
          /\ exc' = exc
          /\ allMetadata' = {}
       \/ /\ Raise("Setup")
          /\ allMetadata' = allMetadata
    /\ UNCHANGED <<kind, doc, prevStatus, status, errorMessage, swappedPaths,
                   charactersCompleted, extracted, matchRes, swap, session,
                   comp, metadata, cbCalls, cbCount, docReplaced, notified,
                   finalDoc, swVars, auxVars>>

\* PPTXService.replace_text_in_pptx
ReplaceText ==
    /\ pc = "text"
    /\ \/ /\ pc' = "extract"
          /\ exc' = exc
       \/ Raise("Text")
    /\ UNCHANGED stageFrame

\* PPTXService.extract_images_from_slides: a picture that cannot be written
\* is logged and skipped; a Preview with nothing extracted raises
ExtractImages ==
    /\ pc = "extract"
    /\ \/ \E skipped \in SUBSET doc :
            LET max_slides == IF kind = "Preview" THEN PREVIEW_PAGES_COUNT ELSE 0
                found == ExtractFromSlides(doc, max_slides) \ skipped
            IN  /\ extracted' = found
                /\ IF kind = "Preview" /\ found = {}
                   THEN Raise("NoImages")
                   ELSE /\ pc' = "refs"
                        /\ exc' = exc
       \/ /\ Raise("Corrupt")
          /\ extracted' = extracted
    /\ UNCHANGED <<kind, doc, prevStatus, status, errorMessage, swappedPaths,
                   charactersCompleted, matchRes, swap, session, comp,
                   metadata, cbCalls, cbCount, docReplaced, notified,
                   allMetadata, finalDoc, swVars, auxVars>>

\* reference embeddings; then process_and_swap_faces creates one
\* _process_single_image task per extracted image
LoadReferences ==
    /\ pc = "refs"
    /\ \/ /\ pc' = "match"
          /\ exc' = exc
          /\ matchRes' = [p \in Pictures |->
                            IF p \in extracted THEN "pending" ELSE "na"]
       \/ /\ Raise("Refs")
          /\ matchRes' = matchRes
    /\ UNCHANGED <<kind, doc, prevStatus, status, errorMessage, swappedPaths,
                   charactersCompleted, extracted, swap, session, comp,
                   metadata, cbCalls, cbCount, docReplaced, notified,
                   allMetadata, finalDoc, swVars, auxVars>>

(***************************************************************************)
(* process_and_swap_faces                                                  *)
(***************************************************************************)
\* one _process_single_image task: a match or None, never an exception
MatchImage(p) ==
    /\ pc = "match"
    /\ matchRes[p] = "pending"
    /\ \E r \in {"match", "none"} : matchRes' = [matchRes EXCEPT ![p] = r]
    /\ UNCHANGED <<kind, doc, prevStatus, pc, status, errorMessage,
                   swappedPaths, charactersCompleted, exc, extracted, swap,
                   session, comp, metadata, cbCalls, cbCount, docReplaced,
                   notified, allMetadata, finalDoc, swVars, auxVars>>

\* await asyncio.gather(*tasks) returns when every task has returned
MatchGatherReturns_First(results) ==
    \E p \in Pictures : results[p] \in {"match", "none"}
MatchGatherReturns(results) == \A p \in Pictures : results[p] # "pending"

\* results = await asyncio.gather(*tasks); no valid result raises; otherwise
\* the session is opened and one swap_face task is created per valid result
MatchFanIn ==
    /\ pc = "match"
    /\ MatchGatherReturns(matchRes)
    /\ IF ValidResults = {}
       THEN /\ Raise("NoMatch")
            /\ UNCHANGED <<session, swap>>
       ELSE /\ pc' = "swap"
            /\ exc' = exc
            /\ session' = "open"
            /\ swap' = [p \in Pictures |->
                          IF p \in ValidResults THEN NewTask ELSE NoTask]
    /\ UNCHANGED <<kind, doc, prevStatus, status, errorMessage, swappedPaths,
                   charactersCompleted, extracted, matchRes, comp, metadata,
                   cbCalls, cbCount, docReplaced, notified, allMetadata,
                   finalDoc, swVars, auxVars>>

taskFrame == <<kind, doc, prevStatus, pc, status, errorMessage, swappedPaths,
               charactersCompleted, exc, extracted, matchRes, session, comp,
               metadata, cbCalls, cbCount, docReplaced, notified, allMetadata,
               finalDoc, swVars, auxVars>>

\* swap_face up to the task id: both images encoded, the request posted.  A
\* request on a session that was closed meanwhile raises.
SwapSubmit(p) ==
    /\ swap[p].st = "new"
    /\ IF session = "open"
       THEN \E resp \in SubmitResponses :
               swap' = [swap EXCEPT ![p] = SubmitTask(resp)]
       ELSE swap' = [swap EXCEPT ![p] = TaskFailed("Transport")]
    /\ UNCHANGED taskFrame

\* one iteration of the poll loop of swap_face: sleep, status request, and on
\* status 1 the download of the result
SwapPoll(p) ==
    /\ swap[p].st = "polling"
    /\ IF session = "open"
       THEN \E r \in PollResponses :
               swap' = [swap EXCEPT ![p] = PollTask(swap[p], r)]
       ELSE swap' = [swap EXCEPT ![p] = TaskFailed("Transport")]
    /\ UNCHANGED taskFrame

\* the pictures whose swap the fan-in waits for before it raises: gather
\* without return_exceptions raises as soon as one task has raised
SwapGatherRaises_All(valid) == \A p \in valid : swap[p].st = "err"
SwapGatherRaises(valid) == \E p \in valid : swap[p].st = "err"

\* swap_results = await asyncio.gather(*swap_tasks), leaving the session
\* block; then one composite_face call per valid result goes to the executor
SwapFanIn ==
    /\ pc = "swap"
    /\ \/ /\ SwapGatherRaises(ValidResults)
          /\ \E p \in ValidResults :
                /\ swap[p].st = "err"
                /\ Raise(swap[p].err)
          /\ session' = "closed"
          /\ comp' = comp
       \/ /\ \A p \in ValidResults : swap[p].st = "ok"
          /\ session' = "closed"
          /\ comp' = [p \in Pictures |->
                        IF p \in ValidResults THEN "running" ELSE "na"]
          /\ pc' = "composite"
          /\ exc' = exc
    /\ UNCHANGED <<kind, doc, prevStatus, status, errorMessage, swappedPaths,
                   charactersCompleted, extracted, matchRes, swap, metadata,
                   cbCalls, cbCount, docReplaced, notified, allMetadata,
                   finalDoc, swVars, auxVars>>

\* one composite_face call in the executor: the output path, or it raises
CompositeFace(p) ==
    /\ comp[p] = "running"
    /\ \E r \in {"ok", "err"} : comp' = [comp EXCEPT ![p] = r]
    /\ UNCHANGED <<kind, doc, prevStatus, pc, status, errorMessage,
                   swappedPaths, charactersCompleted, exc, extracted,
                   matchRes, swap, session, metadata, cbCalls, cbCount,
                   docReplaced, notified, allMetadata, finalDoc, swVars, auxVars>>

\* final_paths = await asyncio.gather(*composite_tasks); image_metadata is
\* built; a run with a progress callback goes on to call it
CompositeFanIn ==
    /\ pc = "composite"
    /\ \/ /\ \E p \in ValidResults : comp[p] = "err"
          /\ Raise("Composite")
          /\ metadata' = metadata
       \/ /\ \A p \in ValidResults : comp[p] = "ok"
          /\ metadata' = ValidResults
          /\ pc' = IF kind = "FullBook" THEN "progress" ELSE "replace"
          /\ exc' = exc
    /\ UNCHANGED <<kind, doc, prevStatus, status, errorMessage, swappedPaths,
                   charactersCompleted, extracted, matchRes, swap, session,
                   comp, cbCalls, cbCount, docReplaced, notified, allMetadata,
                   finalDoc, swVars, auxVars>>

\* await progress_callback(len(image_metadata)): update_progress of
\* generate_full_book persists the count
UpdateProgress ==
    /\ pc = "progress"
    /\ cbCalls' = cbCalls + 1
    /\ cbCount' = CallbackArg(metadata)
    /\ \/ /\ charactersCompleted' = CallbackArg(metadata)
          /\ pc' = "replace"
          /\ exc' = exc
       \/ /\ Raise("Persist")
          /\ charactersCompleted' = charactersCompleted
    /\ UNCHANGED <<kind, doc, prevStatus, status, errorMessage, swappedPaths,
                   extracted, matchRes, swap, session, comp, metadata,
                   docReplaced, notified, allMetadata, finalDoc, swVars, auxVars>>

(***************************************************************************)
(* Stages after the fan-outs                                               *)
(***************************************************************************)
\* PPTXService.replace_images_in_pptx: a replacement that raises inside
\* _replace_in_shapes is logged and the shape keeps its bytes
ReplaceImages ==
    /\ pc = "replace"
    /\ \/ /\ \E failing \in SUBSET metadata :
                docReplaced' = ReplaceInShapes(doc, metadata, failing)
          /\ pc' = "render"
          /\ exc' = exc
       \/ /\ Raise("Replace")
          /\ docReplaced' = docReplaced
    /\ UNCHANGED <<kind, doc, prevStatus, status, errorMessage, swappedPaths,
                   charactersCompleted, extracted, matchRes, swap, session,
                   comp, metadata, cbCalls, cbCount, notified, allMetadata,
                   finalDoc, swVars, auxVars>>

\* convert_slides_to_images (Preview) / convert_pptx_to_pdf (FullBook)
Render ==
    /\ pc = "render"
    /\ \/ /\ pc' = "persist"
          /\ exc' = exc
       \/ Raise("Render")
    /\ UNCHANGED stageFrame

\* PreviewRepository.update_status(status="completed", the slide image urls)
PersistPreview ==
    /\ kind = "Preview"
    /\ pc = "persist"
    /\ \/ /\ status' = "completed"
          /\ swappedPaths' = SlideImages(PREVIEW_PAGES_COUNT)
          /\ errorMessage' = "none"
          /\ pc' = "notify"
          /\ exc' = exc
       \/ /\ Raise("Persist")
          /\ UNCHANGED <<status, swappedPaths, errorMessage>>
    /\ UNCHANGED <<kind, doc, prevStatus, charactersCompleted, extracted,
                   matchRes, swap, session, comp, metadata, cbCalls, cbCount,
                   docReplaced, notified, allMetadata, finalDoc, swVars, auxVars>>

\* GeneratedBookRepository.update_final_paths: paths and 'completed' at once
PersistFullBook ==
    /\ kind = "FullBook"
    /\ pc = "persist"
    /\ \/ /\ status' = "completed"
          /\ swappedPaths' = metadata
          /\ pc' = "done"
          /\ exc' = exc
       \/ /\ Raise("Persist")
          /\ UNCHANGED <<status, swappedPaths>>
    /\ UNCHANGED <<kind, doc, prevStatus, errorMessage, charactersCompleted,
                   extracted, matchRes, swap, session, comp, metadata,
                   cbCalls, cbCount, docReplaced, notified, allMetadata,
                   finalDoc, swVars, auxVars>>

\* send_notifications_for_preview: every error is caught and logged
SendNotifications_BeforePersist ==
    /\ pc \in {"persist", "notify"}
    /\ kind = "Preview"
    /\ notified' = TRUE
    /\ pc' = IF pc = "notify" THEN "flush" ELSE pc
    /\ UNCHANGED <<kind, doc, prevStatus, status, errorMessage, swappedPaths,
                   charactersCompleted, exc, extracted, matchRes, swap,
                   session, comp, metadata, cbCalls, cbCount, docReplaced,
                   allMetadata, finalDoc, swVars, auxVars>>
SendNotifications ==
    /\ pc = "notify"
    /\ notified' = TRUE
    /\ pc' = "flush"
    /\ UNCHANGED <<kind, doc, prevStatus, status, errorMessage, swappedPaths,
                   charactersCompleted, exc, extracted, matchRes, swap,
                   session, comp, metadata, cbCalls, cbCount, docReplaced,
                   allMetadata, finalDoc, swVars, auxVars>>

\* save_timings at the end of the try block: writes the timing file
SaveTimings ==
    /\ pc = "flush"
    /\ \/ /\ pc' = "done"
          /\ exc' = exc
       \/ Raise("Flush")
    /\ UNCHANGED stageFrame

(***************************************************************************)
(* except Exception                                                        *)
(***************************************************************************)
\* generate_preview: update_status(status="failed", error_message=str(e));
\* the other columns of the statement are written as NULL
HandlePreviewFailure ==
    /\ kind = "Preview"
    /\ pc = "handler"
    /\ \/ /\ status' = "failed"
          /\ errorMessage' = exc
          /\ swappedPaths' = FailedUpdatePaths(swappedPaths)
          /\ pc' = "hflush"
       \/ /\ pc' = "raised"
          /\ UNCHANGED <<status, errorMessage, swappedPaths>>
    /\ UNCHANGED <<kind, doc, prevStatus, charactersCompleted, exc, extracted,
                   matchRes, swap, session, comp, metadata, cbCalls, cbCount,
                   docReplaced, notified, allMetadata, finalDoc, swVars, auxVars>>

\* generate_preview: save_timings inside the except clause
HandlerSaveTimings ==
    /\ pc = "hflush"
    /\ pc' \in {"done", "raised"}
    /\ UNCHANGED <<kind, doc, prevStatus, status, errorMessage, swappedPaths,
                   charactersCompleted, exc, extracted, matchRes, swap,
                   session, comp, metadata, cbCalls, cbCount, docReplaced,
                   notified, allMetadata, finalDoc, swVars, auxVars>>

\* generate_full_book: update_status(status="failed", error_message=str(e))
HandleFullBookFailure ==
    /\ kind = "FullBook"
    /\ pc = "handler"
    /\ \/ /\ status' = "failed"
          /\ errorMessage' = exc
          /\ pc' = "done"
       \/ /\ pc' = "raised"
          /\ UNCHANGED <<status, errorMessage>>
    /\ UNCHANGED <<kind, doc, prevStatus, swappedPaths, charactersCompleted,
                   exc, extracted, matchRes, swap, session, comp, metadata,
                   cbCalls, cbCount, docReplaced, notified, allMetadata,
                   finalDoc, swVars, auxVars>>

(***************************************************************************)
(* Lookups of a preview by its token                                       *)
(***************************************************************************)
RETENTION_DAYS == 7

NoRow == [status |-> "none", expires_at |-> 0]
NoResp == [path |-> "none", code |-> 0, expired |-> FALSE]

RdIdle ==
    /\ rdNow = 0
    /\ rdPreview = NoRow
    /\ rdResp = NoResp

\* an error_message column: NULL or a text (a sequence of characters)
Null == [null |-> TRUE, text |-> <<>>]
Str(text) == [null |-> FALSE, text |-> text]

ErIdle ==
    /\ erKind = "Preview"
    /\ erPc = "idle"
    /\ erMsg = <<>>
    /\ erStored = Null

\* the calls of isolate_protagonist_face of one job, one per extracted image
IsoTasks == 1..NumTasks
Infinity == 1000
NoBest == [distance |-> Infinity, idx |-> -1]
NoMatch == [matched |-> FALSE, distance |-> 0, region |-> -1]

IsoRest ==
    /\ isPc = [t \in IsoTasks |-> "start"]
    /\ isRegions = [t \in IsoTasks |-> 0]
    /\ isIdx = [t \in IsoTasks |-> 0]
    /\ isBest = [t \in IsoTasks |-> NoBest]
    /\ isCompared = [t \in IsoTasks |-> 0]
    /\ isTouched = [t \in IsoTasks |-> {}]
    /\ isFiles = {}
    /\ isResult = [t \in IsoTasks |-> NoMatch]
    /\ isErr = [t \in IsoTasks |-> "none"]
    /\ isIdeal = [t \in IsoTasks |-> NoBest]
    /\ isJob = "matching"

\* the reference passed as averaged_reference: generate_preview passes the
\* mean of the Facenet embeddings of the references, one vector;
\* generate_full_book passes the list of the normalized Facenet512 embeddings
PreviewRef(mean) == [list |-> FALSE, model |-> "Facenet", vecs |-> <<mean>>]
FullBookRef(normalized_refs) ==
    [list |-> TRUE, model |-> "Facenet512", vecs |-> normalized_refs]

IsoIdle ==
    /\ isRef = PreviewRef(0)
    /\ IsoRest

\* process_and_swap_faces is not called
PrRest ==
    /\ prPc = "match"
    /\ prDone = <<>>
    /\ prValid = <<>>
    /\ prSwapOut = <<>>
    /\ prSwapResults = <<>>
    /\ prFinalOut = <<>>
    /\ prMetadata = <<>>

PrIdle ==
    /\ prExtracted = <<>>
    /\ prResults = <<>>
    /\ prFiles = {}
    /\ PrRest

\* bytes of an image part: those of the template, or those of the file
\* swapped in for the shape (page, shape id)
OrigBytes(part) == [src |-> "template", slide_idx |-> -1, id |-> part]
NewBytes(slide_idx, shape_id) ==
    [src |-> "swapped", slide_idx |-> slide_idx, id |-> shape_id]

ImageParts == 1..NumParts

\* no presentation is open
DcRest ==
    /\ dcPc = "loaded"
    /\ dcExtracted = <<>>
    /\ dcSkipped = {}
    /\ dcMapping = {}
    /\ dcBlob = [part \in ImageParts |-> OrigBytes(part)]

DcIdle ==
    /\ dcDoc = <<>>
    /\ dcMax = 0
    /\ DcRest

\* convert_slides_to_images is not called
RnRest ==
    /\ rnPc = "start"
    /\ rnFiles = {}
    /\ rnImages = 0
    /\ rnIdx = 0

RnIdle ==
    /\ rnPages = 0
    /\ rnMax = 0
    /\ RnRest

\* a box (x1, y1, x2, y2); NoBox where there is none
Box(x1, y1, x2, y2) == [x1 |-> x1, y1 |-> y1, x2 |-> x2, y2 |-> y2]
NoBox == Box(-1, -1, -1, -1)

\* the 'coordinates' of the value returned; NoCoords where None is returned
Coords(top, bottom, left, right) ==
    [top |-> top, bottom |-> bottom, left |-> left, right |-> right]
NoCoords == Coords(-1, -1, -1, -1)

\* no image is being cropped
CpRest ==
    /\ cpPc = "start"
    /\ cpRegion = NoBox
    /\ cpCoords = NoCoords

CpIdle ==
    /\ cpSide = 1
    /\ cpBox = Box(0, 0, 1, 1)
    /\ CpRest

\* the callers of create_order
OnCallers == 1..NumCallers

\* an order number KK-{day}-{seq:04d}; NoNumber before it is generated
OrderNumber(day, seq) == [day |-> day, seq |-> seq]
NoNumber == OrderNumber(-1, -1)

\* no create_order call is started
OnRest ==
    /\ onPc = [c \in OnCallers |-> "start"]
    /\ onNumber = [c \in OnCallers |-> NoNumber]

OnIdle ==
    /\ onOrders = {}
    /\ OnRest

XIdle == RnIdle /\ CpIdle /\ OnIdle
AuxIdle == RdIdle /\ ErIdle /\ IsoIdle /\ PrIdle /\ DcIdle /\ XIdle

\* the job is not started: the state of the job variables in the
\* specifications of the single components
JobIdle ==
    /\ JobInit
    /\ kind = "Preview"
    /\ doc = {}

(***************************************************************************)
(* The job specification                                                   *)
(***************************************************************************)
Init == JobInit /\ SwInit /\ AuxIdle

Orchestrator ==
    \/ PreviewSetup \/ Cartoonify \/ MarkProcessingStarted \/ LookupPreview
    \/ CopyPreviewImages \/ ReplaceText \/ ExtractImages \/ LoadReferences
    \/ MatchFanIn \/ SwapFanIn \/ CompositeFanIn \/ UpdateProgress
    \/ ReplaceImages \/ Render \/ PersistPreview \/ PersistFullBook
    \/ SendNotifications \/ SaveTimings \/ HandlePreviewFailure
    \/ HandlerSaveTimings \/ HandleFullBookFailure

Next ==
    \/ CreatePreview
    \/ RejectPhoto
    \/ CreateOrder
    \/ Orchestrator
    \/ \E p \in Pictures : MatchImage(p)
    \/ \E p \in Pictures : SwapSubmit(p)
    \/ \E p \in Pictures : SwapPoll(p)
    \/ \E p \in Pictures : CompositeFace(p)

Spec == Init /\ [][Next]_vars

\* the event loop and the executor run every ready task
LiveSpec ==
    /\ Spec
    /\ WF_vars(CreatePreview \/ RejectPhoto \/ CreateOrder \/ Orchestrator)
    /\ \A p \in Pictures : WF_vars(MatchImage(p))
    /\ \A p \in Pictures : WF_vars(SwapSubmit(p) \/ SwapPoll(p))
    /\ \A p \in Pictures : WF_vars(CompositeFace(p))

(***************************************************************************)
(* One call of swap_face, poll by poll                                     *)
(***************************************************************************)
SwSubmit ==
    /\ swTask.st = "new"
    /\ \E resp \in SubmitResponses : swTask' = SubmitTask(resp)
    /\ UNCHANGED <<swPolls, swSlept, swLast, jobVars, auxVars>>

SwPoll ==
    /\ swTask.st = "polling"
    /\ \E r \in PollResponses :
          /\ swTask' = PollTask(swTask, r)
          /\ swLast' = r
    /\ swSlept' = swSlept + POLL_INTERVAL
    /\ swPolls' = swPolls + 1
    /\ UNCHANGED <<jobVars, auxVars>>

SwapInit ==
    /\ JobIdle
    /\ SwInit
    /\ AuxIdle

SwapNext == SwSubmit \/ SwPoll

SwapSpec == SwapInit /\ [][SwapNext]_vars

(***************************************************************************)
(* ReadSpec: the read paths that look a preview up by its token            *)
(***************************************************************************)
\* get_preview_status: expires_at < utcnow()
Expired(row, now) == row.expires_at < now

\* get_by_token: the row of the token, whatever its expires_at
GetByToken(row) == row

Resp(path, code, row, now) ==
    [path |-> path, code |-> code,
     expired |-> row.status # "none" /\ Expired(row, now)]

\* POST /previews: PreviewRepository.create_preview
RdCreatePreview ==
    /\ rdPreview = NoRow
    /\ rdPreview' = [status |-> "processing",
                     expires_at |-> rdNow + RETENTION_DAYS]
    /\ UNCHANGED <<rdNow, rdResp, jobVars, swVars, erVars, isVars, prVars, dcVars, xVars>>

\* the status written by the preview's background task or request handler
RdUpdateStatus ==
    /\ rdPreview.status = "processing"
    /\ \E s \in {"completed", "failed"} :
          rdPreview' = [rdPreview EXCEPT !.status = s]
    /\ UNCHANGED <<rdNow, rdResp, jobVars, swVars, erVars, isVars, prVars, dcVars, xVars>>

\* a day passes
RdTick ==
    /\ rdNow < MaxDay
    /\ rdNow' = rdNow + 1
    /\ UNCHANGED <<rdPreview, rdResp, jobVars, swVars, erVars, isVars, prVars, dcVars, xVars>>

\* GET /previews/{preview_token}
GetPreviewStatus ==
    LET preview == GetByToken(rdPreview) IN
    /\ rdResp' = IF preview.status = "none"
                    THEN Resp("status", 404, preview, rdNow)
                 ELSE IF Expired(preview, rdNow)
                    THEN Resp("status", 410, preview, rdNow)
                 ELSE Resp("status", 200, preview, rdNow)
    /\ UNCHANGED <<rdNow, rdPreview, jobVars, swVars, erVars, isVars, prVars, dcVars, xVars>>

\* POST /orders
EpCreateOrder ==
    LET preview == GetByToken(rdPreview) IN
    /\ rdResp' = IF preview.status = "none"
                    THEN Resp("order", 404, preview, rdNow)
                 ELSE IF preview.status # "completed"
                    THEN Resp("order", 400, preview, rdNow)
                 ELSE Resp("order", 200, preview, rdNow)
    /\ UNCHANGED <<rdNow, rdPreview, jobVars, swVars, erVars, isVars, prVars, dcVars, xVars>>

\* POST /{preview_token}/phone_number
AddContactForNotification ==
    LET preview == GetByToken(rdPreview) IN
    /\ rdResp' = IF preview.status = "none"
                    THEN Resp("contact", 404, preview, rdNow)
                 ELSE IF preview.status = "completed"
                    THEN Resp("contact", 400, preview, rdNow)
                 ELSE Resp("contact", 200, preview, rdNow)
    /\ UNCHANGED <<rdNow, rdPreview, jobVars, swVars, erVars, isVars, prVars, dcVars, xVars>>

\* generate_full_book, step 1: code 200 stands for going on with the
\* preview, 404 for ValueError("Preview not ready")
FullBookLookup ==
    LET preview == GetByToken(rdPreview) IN
    /\ rdResp' = IF preview.status = "none" \/ preview.status # "completed"
                    THEN Resp("fullbook", 404, preview, rdNow)
                 ELSE Resp("fullbook", 200, preview, rdNow)
    /\ UNCHANGED <<rdNow, rdPreview, jobVars, swVars, erVars, isVars, prVars, dcVars, xVars>>

ReadInit ==
    /\ JobIdle
    /\ SwInit
    /\ AuxIdle

ReadNext ==
    \/ RdCreatePreview
    \/ RdUpdateStatus
    \/ RdTick
    \/ GetPreviewStatus
    \/ EpCreateOrder
    \/ AddContactForNotification
    \/ FullBookLookup

ReadSpec == ReadInit /\ [][ReadNext]_vars

(***************************************************************************)
(* ErrSpec: the error message persisted with the failed status             *)
(***************************************************************************)
MAX_LENGTH == 250

SetMin(S) == CHOOSE x \in S : \A y \in S : x <= y
SetMax(S) == CHOOSE x \in S : \A y \in S : x >= y

Whitespace == {" ", "\n", "\r", "\t"}
Ellipsis == <<".", ".", ".">>

\* str.strip()
Strip(m) ==
    LET kept == {i \in 1..Len(m) : m[i] \notin Whitespace} IN
    IF kept = {} THEN <<>> ELSE SubSeq(m, SetMin(kept), SetMax(kept))

\* positions are those of the code, counted from 0; -1: none
FirstSentenceEnd(m) ==
    LET ends == {i \in 0..(Len(m) - 1) :
                    /\ m[i + 1] = "."
                    /\ i + 1 < Len(m)
                    /\ m[i + 2] \in {" ", "\n", "\r"}} IN
    IF ends = {} THEN -1 ELSE SetMin(ends) + 1

SecondNewlinePos(m) ==
    LET nls == {i \in 0..(Len(m) - 1) : m[i + 1] = "\n"} IN
    IF Cardinality(nls) < 2 THEN -1 ELSE SetMin(nls \ {SetMin(nls)})

\* message[:n]
Slice(m, n) == SubSeq(m, 1, IF n < Len(m) THEN n ELSE Len(m))

\* truncate_error_message applied to a str
TruncateStripped(m, max_length) ==
    LET cut_positions == {pos \in {FirstSentenceEnd(m), SecondNewlinePos(m),
                                   max_length} : pos > 0}
    IN  IF cut_positions # {}
        THEN LET cut_at == SetMin(cut_positions)
                 truncated == Strip(Slice(m, cut_at))
             IN  IF Len(m) > cut_at THEN truncated \o Ellipsis ELSE truncated
        ELSE Slice(m, max_length)

truncate_error_message(message, max_length) ==
    IF message = <<>> THEN Str(message)
    ELSE IF Strip(message) = <<>> THEN Null
    ELSE Str(TruncateStripped(Strip(message), max_length))

\* the messages of the exceptions: runs of a letter of several lengths, with
\* a sentence end, with two line breaks, with surrounding blanks
Fill(n) == [i \in 1..n |-> "a"]
MsgLens == {0, 1, 4, MAX_LENGTH, MAX_LENGTH + 1, MAX_LENGTH + MsgExtra}
MarkAt == {1, 3, MAX_LENGTH, MAX_LENGTH + 1}
Messages ==
    {Fill(n) : n \in MsgLens}
    \cup {[[Fill(n) EXCEPT ![k] = "."] EXCEPT ![k + 1] = " "] :
             <<n, k>> \in {x \in MsgLens \X MarkAt : x[2] + 1 <= x[1]}}
    \cup {[[Fill(n) EXCEPT ![k] = "\n"] EXCEPT ![k + 2] = "\n"] :
             <<n, k>> \in {x \in MsgLens \X MarkAt : x[2] + 2 <= x[1]}}
    \cup {<<" ">> \o Fill(n) \o <<".">> : n \in MsgLens}

\* an exception reaches the except clause of the job
ErRaise ==
    /\ erPc = "idle"
    /\ \E k \in Kinds, m \in Messages :
          /\ erKind' = k
          /\ erMsg' = m
    /\ erPc' = "handler"
    /\ UNCHANGED <<erStored, jobVars, swVars, rdVars, isVars, prVars, dcVars, xVars>>

\* generate_preview, except clause: PreviewRepository.update_status
ErHandlePreviewFailure ==
    /\ erPc = "handler"
    /\ erKind = "Preview"
    /\ erStored' = Str(erMsg)
    /\ erPc' = "done"
    /\ UNCHANGED <<erKind, erMsg, jobVars, swVars, rdVars, isVars, prVars, dcVars, xVars>>

\* generate_full_book, except clause: GeneratedBookRepository.update_status
ErHandleFullBookFailure ==
    /\ erPc = "handler"
    /\ erKind = "FullBook"
    /\ erStored' = truncate_error_message(erMsg, MAX_LENGTH)
    /\ erPc' = "done"
    /\ UNCHANGED <<erKind, erMsg, jobVars, swVars, rdVars, isVars, prVars, dcVars, xVars>>

ErrInit ==
    /\ JobIdle
    /\ SwInit
    /\ AuxIdle

ErrNext == ErRaise \/ ErHandlePreviewFailure \/ ErHandleFullBookFailure

ErrSpec == ErrInit /\ [][ErrNext]_vars

(***************************************************************************)
(* IsoSpec: isolate_protagonist_face, run for the extracted images of one  *)
(* job by the threads of the default executor                              *)
(***************************************************************************)
SIMILARITY_THRESHOLD == 8

\* embeddings are vectors of one dimension; a normalized one is 1 or -1
RefEmbeddings == {0, 1}
FaceEmbeddings == {0, 8, 9, 10}
ReferenceArgs ==
    {PreviewRef(mean) : mean \in RefEmbeddings}
    \cup {FullBookRef(<<1>>), FullBookRef(<<-1, 1>>)}

\* length of an embedding of the model
EmbeddingDim(model) == IF model = "Facenet512" THEN 512 ELSE 128

\* np.linalg.norm
Norm(x) == IF x < 0 THEN -x ELSE x

\* averaged_reference - encoding, encoding being the Facenet embedding of the
\* person crop: numpy raises unless the trailing dimensions agree
Broadcasts(ref) == EmbeddingDim(ref.model) = EmbeddingDim("Facenet")

\* np.linalg.norm(averaged_reference - encoding) for one reference vector
CodeDistance(ref, encoding) == Norm(ref.vecs[1] - encoding)

\* the least Euclidean distance between the encoding and a reference of the
\* set passed in
PairDistance(ref, encoding) ==
    SetMin({Norm(ref.vecs[i] - encoding) : i \in 1..Len(ref.vecs)})

\* the paths of the extracted directory: temp_crops, temp_crops/person_{idx}.jpg
\* and crop_{name of the image}
TempDir == <<"temp_crops", 0>>
PersonCrop(idx) == <<"person", idx>>
CropFile(t) == <<"crop", t>>
TempPaths(files) == {f \in files : f[1] \in {"temp_crops", "person"}}

\* one detected person: no comparison
BestOfSingle_Compared(ref) == [distance |-> CodeDistance(ref, 0), idx |-> 0]
BestOfSingle(ref) == [distance |-> 0, idx |-> 0]

\* if distance < best_distance
BetterOf(best, distance, idx) ==
    IF distance < best.distance
    THEN [distance |-> distance, idx |-> idx]
    ELSE best

\* best_distance > SIMILARITY_THRESHOLD or best_person_bbox is None
Rejected(best) == best.distance > SIMILARITY_THRESHOLD \/ best.idx = -1

isFrame == <<jobVars, swVars, rdVars, erVars, prVars, dcVars, xVars>>

\* _process_single_image up to the person regions: the file is missing or
\* unreadable, or detection raised, and the image is given up; or
\* detect_person_regions returns its regions
IsoLoad(t) ==
    /\ isPc[t] = "start"
    /\ isJob = "matching"
    /\ \/ /\ isPc' = [isPc EXCEPT ![t] = "done"]
          /\ isErr' = [isErr EXCEPT ![t] = "image"]
          /\ UNCHANGED <<isRegions, isBest>>
       \/ \E n \in 0..MaxRegions :
             /\ isRegions' = [isRegions EXCEPT ![t] = n]
             /\ isPc' = [isPc EXCEPT ![t] =
                   IF n = 0 THEN "done" ELSE IF n = 1 THEN "crop" ELSE "mktemp"]
             /\ isBest' = [isBest EXCEPT ![t] =
                   IF n = 1 THEN BestOfSingle(isRef) ELSE NoBest]
             /\ isErr' = isErr
    /\ UNCHANGED <<isRef, isIdx, isCompared, isTouched, isFiles, isResult,
                   isIdeal, isJob, isFrame>>

\* temp_dir.mkdir(exist_ok=True)
IsoMkTemp(t) ==
    /\ isPc[t] = "mktemp"
    /\ isFiles' = isFiles \cup {TempDir}
    /\ isTouched' = [isTouched EXCEPT ![t] = @ \cup {TempDir}]
    /\ isPc' = [isPc EXCEPT ![t] = "loop"]
    /\ UNCHANGED <<isRef, isRegions, isIdx, isBest, isCompared, isResult,
                   isErr, isIdeal, isJob, isFrame>>

\* one turn of the loop over person_regions: the crop is written to
\* temp_crops/person_{idx}.jpg, a face is looked for in that file and
\* embedded, and the embedding compared with the reference.  An exception of
\* the face detection, the embedding or the comparison skips the person; one
\* raised outside the inner try ends the call through the outer except.
IsoRegion(t) ==
    /\ isPc[t] = "loop"
    /\ isFiles' = IF TempDir \in isFiles
                    THEN isFiles \cup {PersonCrop(isIdx[t])}
                    ELSE isFiles
    /\ isTouched' = [isTouched EXCEPT ![t] = @ \cup {PersonCrop(isIdx[t])}]
    /\ \/ \* no face in the crop
          /\ UNCHANGED <<isBest, isCompared, isErr, isIdeal>>
          /\ isIdx' = [isIdx EXCEPT ![t] = @ + 1]
          /\ isPc' = [isPc EXCEPT ![t] =
                IF isIdx[t] + 1 = isRegions[t] THEN "cleanup" ELSE "loop"]
       \/ \* extract_faces or represent raised
          /\ UNCHANGED <<isBest, isCompared, isIdeal>>
          /\ isErr' = [isErr EXCEPT ![t] = "embedding"]
          /\ isIdx' = [isIdx EXCEPT ![t] = @ + 1]
          /\ isPc' = [isPc EXCEPT ![t] =
                IF isIdx[t] + 1 = isRegions[t] THEN "cleanup" ELSE "loop"]
       \/ \E encoding \in FaceEmbeddings :
             /\ isIdeal' = [isIdeal EXCEPT ![t] =
                   BetterOf(@, PairDistance(isRef, encoding), isIdx[t])]
             /\ IF Broadcasts(isRef)
                THEN /\ isBest' = [isBest EXCEPT ![t] =
                           BetterOf(@, CodeDistance(isRef, encoding), isIdx[t])]
                     /\ isCompared' = [isCompared EXCEPT ![t] = @ + 1]
                     /\ isErr' = isErr
                ELSE /\ UNCHANGED <<isBest, isCompared>>
                     /\ isErr' = [isErr EXCEPT ![t] = "embedding"]
             /\ isIdx' = [isIdx EXCEPT ![t] = @ + 1]
             /\ isPc' = [isPc EXCEPT ![t] =
                   IF isIdx[t] + 1 = isRegions[t] THEN "cleanup" ELSE "loop"]
       \/ \* an exception outside the inner try: return None
          /\ UNCHANGED <<isBest, isCompared, isIdeal, isIdx>>
          /\ isErr' = [isErr EXCEPT ![t] = "fatal"]
          /\ isPc' = [isPc EXCEPT ![t] = "done"]
    /\ UNCHANGED <<isRef, isRegions, isResult, isJob, isFrame>>

\* shutil.rmtree(temp_dir) and the test of the threshold
IsoCleanup(t) ==
    /\ isPc[t] = "cleanup"
    /\ LET removed == IF TempDir \in isFiles THEN TempPaths(isFiles) ELSE {}
       IN  /\ isFiles' = isFiles \ removed
           /\ isTouched' = [isTouched EXCEPT ![t] = @ \cup removed]
    /\ isPc' = [isPc EXCEPT ![t] =
          IF Rejected(isBest[t]) THEN "done" ELSE "crop"]
    /\ UNCHANGED <<isRef, isRegions, isIdx, isBest, isCompared, isResult,
                   isErr, isIdeal, isJob, isFrame>>

\* the crop of the protagonist is written and returned
IsoCrop(t) ==
    /\ isPc[t] = "crop"
    /\ isFiles' = isFiles \cup {CropFile(t)}
    /\ isTouched' = [isTouched EXCEPT ![t] = @ \cup {CropFile(t)}]
    /\ isResult' = [isResult EXCEPT ![t] =
          [matched |-> TRUE, distance |-> isBest[t].distance,
           region |-> isBest[t].idx]]
    /\ isPc' = [isPc EXCEPT ![t] = "done"]
    /\ UNCHANGED <<isRef, isRegions, isIdx, isBest, isCompared, isErr,
                   isIdeal, isJob, isFrame>>

\* valid_results = [r for r in results if r is not None] is empty
NoValidResults_Any(results) == \E t \in IsoTasks : ~results[t].matched
NoValidResults(results) == \A t \in IsoTasks : ~results[t].matched

\* results = await asyncio.gather(*tasks); ValueError("No faces could be
\* swapped") when no result is left, the swap fan-out otherwise
IsoFanIn ==
    /\ isJob = "matching"
    /\ \A t \in IsoTasks : isPc[t] = "done"
    /\ isJob' = IF NoValidResults(isResult) THEN "failed" ELSE "swap"
    /\ UNCHANGED <<isRef, isPc, isRegions, isIdx, isBest, isCompared,
                   isTouched, isFiles, isResult, isErr, isIdeal, isFrame>>

IsoInit ==
    /\ JobIdle
    /\ SwInit
    /\ XIdle
    /\ RdIdle
    /\ ErIdle
    /\ PrIdle
    /\ DcIdle
    /\ isRef \in ReferenceArgs
    /\ IsoRest

IsoNext ==
    \/ \E t \in IsoTasks :
          \/ IsoLoad(t)
          \/ IsoMkTemp(t)
          \/ IsoRegion(t)
          \/ IsoCleanup(t)
          \/ IsoCrop(t)
    \/ IsoFanIn

IsoSpec == IsoInit /\ [][IsoNext]_vars

(***************************************************************************)
(* PairSpec: process_and_swap_faces with its lists, its files and the      *)
(* order in which the tasks of each fan-out complete                       *)
(***************************************************************************)
NoPic == <<-1, -1>>

\* paths: extracted/slide{s}_shape{id}.png, extracted/crop_slide{s}_shape{id}.png,
\* swapped/swapped_{task_id}.jpg and swapped/swapped_{idx}.jpg
ExtractedPath(pic) == [kind |-> "extracted", pic |-> pic, n |-> 0]
CropPath(pic) == [kind |-> "crop", pic |-> pic, n |-> 0]
TaskPath(task_id) == [kind |-> "task", pic |-> NoPic, n |-> task_id]
SwappedPath(idx) == [kind |-> "swapped", pic |-> NoPic, n |-> idx]
Pending == [kind |-> "pending", pic |-> NoPic, n |-> 0]

\* a file is written: its content derives from the images in src
WriteFile(files, path, src) ==
    {f \in files : f.path # path} \cup {[path |-> path, src |-> src]}

\* the images the content of a file derives from
ReadFile(files, path) ==
    UNION {f.src : f \in {g \in files : g.path = path}}

\* values of a _process_single_image task
PendingResult == [st |-> "pending", pic |-> NoPic, idx |-> -1, crop |-> Pending]
NoneResult == [st |-> "none", pic |-> NoPic, idx |-> -1, crop |-> Pending]
MatchResult(k) ==
    [st |-> "match", pic |-> prExtracted[k], idx |-> k - 1,
     crop |-> CropPath(prExtracted[k])]

\* asyncio.gather: the values in the order of the awaitables passed
Gather_AsCompleted(results, completion) ==
    [j \in 1..Len(completion) |-> results[completion[j]]]
Gather(results, completion) == results

Range(q) == {q[i] : i \in 1..Len(q)}

\* lists of distinct pictures
ExtractedLists ==
    UNION {{q \in [1..n -> Pictures] : \A i, j \in 1..n : i # j => q[i] # q[j]} :
              n \in 1..MaxImages}

prFrame == <<jobVars, swVars, rdVars, erVars, isVars, dcVars, xVars>>

\* one _process_single_image task returns: None, or the match with the crop
\* written next to the extracted image
PrMatchTask(k) ==
    /\ prPc = "match"
    /\ k \in 1..Len(prExtracted)
    /\ prResults[k].st = "pending"
    /\ \/ /\ prResults' = [prResults EXCEPT ![k] = NoneResult]
          /\ prFiles' = prFiles
       \/ /\ prResults' = [prResults EXCEPT ![k] = MatchResult(k)]
          /\ prFiles' = WriteFile(prFiles, CropPath(prExtracted[k]),
                                  ReadFile(prFiles, ExtractedPath(prExtracted[k])))
    /\ prDone' = Append(prDone, k)
    /\ UNCHANGED <<prExtracted, prPc, prValid, prSwapOut, prSwapResults,
                   prFinalOut, prMetadata, prFrame>>

\* results = await asyncio.gather(*tasks); valid_results; the swap tasks are
\* created, or ValueError("No faces could be swapped")
PrMatchFanIn ==
    /\ prPc = "match"
    /\ Len(prDone) = Len(prExtracted)
    /\ LET results == Gather(prResults, prDone)
           valid_results == SelectSeq(results, LAMBDA r : r.st = "match")
       IN  /\ prValid' = valid_results
           /\ prPc' = IF valid_results = <<>> THEN "failed" ELSE "swap"
           /\ prSwapOut' = [i \in 1..Len(valid_results) |-> Pending]
    /\ prDone' = <<>>
    /\ UNCHANGED <<prExtracted, prResults, prSwapResults, prFinalOut,
                   prMetadata, prFiles, prFrame>>

\* one swap_face task returns the path swapped_{task_id}.jpg of the result
\* it downloaded for the crop it was given
PrSwapTask(i) ==
    /\ prPc = "swap"
    /\ i \in 1..Len(prValid)
    /\ prSwapOut[i] = Pending
    /\ LET task_id == Len(prDone) + 1 IN
          /\ prSwapOut' = [prSwapOut EXCEPT ![i] = TaskPath(task_id)]
          /\ prFiles' = WriteFile(prFiles, TaskPath(task_id),
                                  ReadFile(prFiles, prValid[i].crop))
    /\ prDone' = Append(prDone, i)
    /\ UNCHANGED <<prExtracted, prPc, prResults, prValid, prSwapResults,
                   prFinalOut, prMetadata, prFrame>>

\* swap_results = await asyncio.gather(*swap_tasks)
PrSwapFanIn ==
    /\ prPc = "swap"
    /\ Len(prDone) = Len(prValid)
    /\ prSwapResults' = Gather(prSwapOut, prDone)
    /\ prFinalOut' = [i \in 1..Len(prValid) |-> Pending]
    /\ prPc' = "composite"
    /\ prDone' = <<>>
    /\ UNCHANGED <<prExtracted, prResults, prValid, prSwapOut, prMetadata,
                   prFiles, prFrame>>

\* one composite_face call: the swapped face of swap_results[i] is pasted
\* into the image of valid_results[i] and written to swapped_{idx}.jpg
PrCompositeTask(i) ==
    /\ prPc = "composite"
    /\ i \in 1..Len(prValid)
    /\ prFinalOut[i] = Pending
    /\ LET output_path == SwappedPath(prValid[i].idx) IN
          /\ prFinalOut' = [prFinalOut EXCEPT ![i] = output_path]
          /\ prFiles' = WriteFile(prFiles, output_path,
                            ReadFile(prFiles, ExtractedPath(prValid[i].pic))
                            \cup ReadFile(prFiles, prSwapResults[i]))
    /\ prDone' = Append(prDone, i)
    /\ UNCHANGED <<prExtracted, prPc, prResults, prValid, prSwapOut,
                   prSwapResults, prMetadata, prFrame>>

\* final_paths = await asyncio.gather(*composite_tasks); image_metadata
PrCompositeFanIn ==
    /\ prPc = "composite"
    /\ Len(prDone) = Len(prValid)
    /\ LET final_paths == Gather(prFinalOut, prDone) IN
          prMetadata' = [i \in 1..Len(prValid) |->
                            [pic |-> prValid[i].pic,
                             swapped_path |-> final_paths[i]]]
    /\ prPc' = "done"
    /\ prDone' = <<>>
    /\ UNCHANGED <<prExtracted, prResults, prValid, prSwapOut, prSwapResults,
                   prFinalOut, prFiles, prFrame>>

PairInit ==
    /\ JobIdle
    /\ SwInit
    /\ XIdle
    /\ RdIdle
    /\ ErIdle
    /\ IsoIdle
    /\ DcIdle
    /\ prExtracted \in ExtractedLists
    /\ prResults = [k \in 1..Len(prExtracted) |-> PendingResult]
    /\ prFiles = {[path |-> ExtractedPath(pic), src |-> {pic}] :
                     pic \in Range(prExtracted)}
    /\ PrRest

PairNext ==
    \/ \E k \in 1..MaxImages : PrMatchTask(k)
    \/ PrMatchFanIn
    \/ \E i \in 1..MaxImages : PrSwapTask(i)
    \/ PrSwapFanIn
    \/ \E i \in 1..MaxImages : PrCompositeTask(i)
    \/ PrCompositeFanIn

PairSpec == PairInit /\ [][PairNext]_vars

(***************************************************************************)
(* DocSpec: extract_images_from_slides and replace_images_in_pptx on a     *)
(* presentation with grouped shapes and shared image parts                 *)
(***************************************************************************)
\* shapes: a picture shows the image part it is related to by its blip rId
Pic(id, part) == [type |-> "PICTURE", id |-> id, part |-> part, shapes |-> <<>>]
Txt(id) == [type |-> "TEXT", id |-> id, part |-> 0, shapes |-> <<>>]
Grp(id, shapes) == [type |-> "GROUP", id |-> id, part |-> 0, shapes |-> shapes]
PicOrTxt(id, part) == IF part = 0 THEN Txt(id) ELSE Pic(id, part)

\* two slides: a shape at top level and one in a group; one in a group of
\* a group and one at top level. Shape ids are unique within a slide.
DocOf(a, b, c, d) ==
    << <<PicOrTxt(1, a), Grp(2, <<PicOrTxt(3, b), Txt(4)>>)>>,
       <<Grp(1, <<Grp(2, <<PicOrTxt(3, c)>>)>>), PicOrTxt(4, d), Txt(5)>> >>

Documents ==
    {DocOf(a, b, c, d) : a \in 0..NumParts, b \in 0..NumParts,
                         c \in 0..NumParts, d \in 0..NumParts}

\* max_slides: None is written 0
NoLimit == 0
Limits == {NoLimit} \cup 1..MaxLimit

\* list(prs.slides)[:max_slides] if max_slides else prs.slides
DocSlidesToProcess_All(prs, max_slides) == prs
DocSlidesToProcess(prs, max_slides) ==
    IF max_slides # NoLimit
    THEN SubSeq(prs, 1, IF max_slides < Len(prs) THEN max_slides ELSE Len(prs))
    ELSE prs

\* _extract_from_shapes: one record per picture, groups recursed into; a
\* picture whose extraction raises is logged and skipped
RECURSIVE ExtractFromShapes(_, _, _)
ExtractFromShapes(shapes, slide_idx, raising) ==
    IF shapes = <<>> THEN <<>>
    ELSE LET shape == Head(shapes)
             here == IF shape.type = "PICTURE"
                     THEN IF <<slide_idx, shape.id>> \notin raising
                          THEN <<[slide_idx |-> slide_idx, shape_id |-> shape.id]>>
                          ELSE <<>>
                     ELSE IF shape.type = "GROUP"
                     THEN ExtractFromShapes(shape.shapes, slide_idx, raising)
                     ELSE <<>>
         IN  here \o ExtractFromShapes(Tail(shapes), slide_idx, raising)

\* for slide_idx, slide in enumerate(slides_to_process)
RECURSIVE ExtractFromSlideList(_, _, _)
ExtractFromSlideList(slides, slide_idx, raising) ==
    IF slides = <<>> THEN <<>>
    ELSE ExtractFromShapes(Head(slides), slide_idx, raising)
         \o ExtractFromSlideList(Tail(slides), slide_idx + 1, raising)

extract_images_from_slides(prs, max_slides, raising) ==
    ExtractFromSlideList(DocSlidesToProcess(prs, max_slides), 0, raising)

\* _replace_in_shapes: the blob of the image part of each picture with an
\* entry is overwritten, shape after shape; a replacement that raises, or
\* whose file is missing, leaves the part as it is
RECURSIVE ReplaceInShapeList(_, _, _, _, _)
ReplaceInShapeList(shapes, slide_idx, blob, image_metadata, raising) ==
    IF shapes = <<>> THEN blob
    ELSE LET shape == Head(shapes)
             matching == [slide_idx |-> slide_idx, shape_id |-> shape.id]
             after ==
               IF shape.type = "PICTURE"
               THEN IF /\ matching \in image_metadata
                       /\ <<slide_idx, shape.id>> \notin raising
                    THEN [blob EXCEPT ![shape.part] = NewBytes(slide_idx, shape.id)]
                    ELSE blob
               ELSE IF shape.type = "GROUP"
               THEN ReplaceInShapeList(shape.shapes, slide_idx, blob,
                                       image_metadata, raising)
               ELSE blob
         IN  ReplaceInShapeList(Tail(shapes), slide_idx, after,
                                image_metadata, raising)

\* for slide_idx, slide in enumerate(prs.slides)
RECURSIVE ReplaceInSlideList(_, _, _, _, _)
ReplaceInSlideList(slides, slide_idx, blob, image_metadata, raising) ==
    IF slides = <<>> THEN blob
    ELSE ReplaceInSlideList(Tail(slides), slide_idx + 1,
             ReplaceInShapeList(Head(slides), slide_idx, blob,
                                image_metadata, raising),
             image_metadata, raising)

replace_images_in_pptx(prs, blob, image_metadata, raising) ==
    ReplaceInSlideList(prs, 0, blob, image_metadata, raising)

\* the picture shapes of a list of shapes, at any depth
RECURSIVE PicturesIn(_, _)
PicturesIn(shapes, slide_idx) ==
    IF shapes = <<>> THEN {}
    ELSE LET shape == Head(shapes)
             here == IF shape.type = "PICTURE"
                     THEN {[slide_idx |-> slide_idx, shape_id |-> shape.id,
                            part |-> shape.part]}
                     ELSE PicturesIn(shape.shapes, slide_idx)
         IN  here \cup PicturesIn(Tail(shapes), slide_idx)

\* for slide_idx, slide in enumerate(prs.slides): the pictures that
\* _replace_in_shapes visits, each under the index of its slide
DocPictures_OneBased(prs) ==
    UNION {PicturesIn(prs[i], i) : i \in 1..Len(prs)}
DocPictures(prs) ==
    UNION {PicturesIn(prs[i], i - 1) : i \in 1..Len(prs)}

Key(picture) == [slide_idx |-> picture.slide_idx, shape_id |-> picture.shape_id]

\* sets of at most one picture: the extraction or replacement that raises
AtMostOne(S) == {{}} \cup {{<<x.slide_idx, x.shape_id>>} : x \in S}

dcFrame == <<jobVars, swVars, rdVars, erVars, isVars, prVars, xVars>>

DcExtract ==
    /\ dcPc = "loaded"
    /\ \E raising \in AtMostOne(DocPictures(dcDoc)) :
          /\ dcExtracted' = extract_images_from_slides(dcDoc, dcMax, raising)
          /\ dcSkipped' = raising
    /\ dcPc' = "extracted"
    /\ UNCHANGED <<dcDoc, dcMax, dcMapping, dcBlob, dcFrame>>

\* the mapping holds entries for some of the extracted images
DcReplace ==
    /\ dcPc = "extracted"
    /\ \E image_metadata \in SUBSET Range(dcExtracted) :
       \E raising \in AtMostOne(DocPictures(dcDoc)) :
          /\ dcMapping' = image_metadata
          /\ dcBlob' = replace_images_in_pptx(dcDoc, dcBlob, image_metadata,
                                              raising)
    /\ dcPc' = "replaced"
    /\ UNCHANGED <<dcDoc, dcMax, dcExtracted, dcSkipped, dcFrame>>

DocInit ==
    /\ JobIdle
    /\ SwInit
    /\ XIdle
    /\ RdIdle
    /\ ErIdle
    /\ IsoIdle
    /\ PrIdle
    /\ dcDoc \in Documents
    /\ dcMax \in Limits
    /\ DcRest

DocNext == DcExtract \/ DcReplace

DocSpec == DocInit /\ [][DocNext]_vars

(***************************************************************************)
(* Rendering of the slides to page images: convert_slides_to_images goes    *)
(* through an intermediate PDF written in the output directory.            *)
(***************************************************************************)
\* {pptx_basename}.pdf and slide_{idx}.png in output_dir
PdfFile == <<"pdf", 0>>
SlidePng(idx) == <<"slide", idx>>

\* convert_from_path(first_page=1, last_page=max_slides if max_slides else None)
PagesConverted(pages, max_slides) ==
    IF max_slides = NoLimit \/ max_slides > pages THEN pages ELSE max_slides

\* the clean-up of the PDF file
RemovePdf(files) == files \ {PdfFile}

rnFrame == <<jobVars, swVars, rdVars, erVars, isVars, prVars, dcVars,
             cpVars, onVars>>

\* shutil.which: LibreOffice is found, or FileNotFoundError
RnFindOffice ==
    /\ rnPc = "start"
    /\ rnPages > 0
    /\ \/ rnPc' = "convert"
       \/ rnPc' = "raised"
    /\ UNCHANGED <<rnPages, rnMax, rnFiles, rnImages, rnIdx, rnFrame>>

\* subprocess.run(soffice --convert-to pdf, check=True): the PDF is written,
\* or CalledProcessError
RnConvertToPdf ==
    /\ rnPc = "convert"
    /\ \/ /\ rnFiles' = rnFiles \cup {PdfFile}
          /\ rnPc' = "pdf2image"
       \/ /\ rnPc' = "raised"
          /\ rnFiles' = rnFiles
    /\ UNCHANGED <<rnPages, rnMax, rnImages, rnIdx, rnFrame>>

\* convert_from_path: the pages of the PDF, or an exception
RnConvertFromPath ==
    /\ rnPc = "pdf2image"
    /\ \/ /\ rnImages' = PagesConverted(rnPages, rnMax)
          /\ rnPc' = "save"
       \/ /\ rnPc' = "raised"
          /\ rnImages' = rnImages
    /\ UNCHANGED <<rnPages, rnMax, rnFiles, rnIdx, rnFrame>>

\* image.save(final_path, 'PNG') for one page, or an exception
RnSaveImage ==
    /\ rnPc = "save"
    /\ rnIdx < rnImages
    /\ \/ /\ rnFiles' = rnFiles \cup {SlidePng(rnIdx)}
          /\ rnIdx' = rnIdx + 1
          /\ rnPc' = rnPc
       \/ /\ rnPc' = "raised"
          /\ UNCHANGED <<rnFiles, rnIdx>>
    /\ UNCHANGED <<rnPages, rnMax, rnImages, rnFrame>>

\* the PDF is removed and the image paths returned
RnCleanup ==
    /\ rnPc = "save"
    /\ rnIdx = rnImages
    /\ rnFiles' = RemovePdf(rnFiles)
    /\ rnPc' = "returned"
    /\ UNCHANGED <<rnPages, rnMax, rnImages, rnIdx, rnFrame>>

RenderInit ==
    /\ JobIdle
    /\ SwInit
    /\ RdIdle
    /\ ErIdle
    /\ IsoIdle
    /\ PrIdle
    /\ DcIdle
    /\ CpIdle
    /\ OnIdle
    /\ rnPages \in 1..TemplateSlides
    /\ rnMax \in Limits
    /\ RnRest

RenderNext ==
    \/ RnFindOffice
    \/ RnConvertToPdf
    \/ RnConvertFromPath
    \/ RnSaveImage
    \/ RnCleanup

RenderSpec == RenderInit /\ [][RenderNext]_vars

(***************************************************************************)
(* The coordinates of the crop: detect_person_regions pads the box of the   *)
(* detector, isolate_protagonist_face crops the region and returns its     *)
(* coordinates.                                                            *)
(***************************************************************************)
PADDING_PERCENT == 30
\* pad = 2
Pad == 2

Max2(a, b) == IF a > b THEN a ELSE b
Min2(a, b) == IF a < b THEN a ELSE b

\* the boxes of the detector on an image of the given side
DetectorBoxes(side) ==
    {Box(x1, y1, x2, y2) : x1 \in 0..side, y1 \in 0..side,
                           x2 \in 0..side, y2 \in 0..side}

\* 'bbox': (x1_padded, y1_padded, x2_padded, y2_padded)
PaddedBox(box, width, height) ==
    Box(Max2(0, box.x1 - Pad), Max2(0, box.y1 - Pad),
        Min2(width, box.x2 + Pad), Min2(height, box.y2 + Pad))

\* x1, y1, x2, y2 = best_person_bbox; 'coordinates': top, bottom, left, right
CoordinatesOf(bbox) == Coords(bbox.y1, bbox.y2, bbox.x1, bbox.x2)

cpFrame == <<jobVars, swVars, rdVars, erVars, isVars, prVars, dcVars,
             rnVars, onVars>>

\* detect_person_regions on a person box
CpDetect ==
    /\ cpPc = "start"
    /\ cpBox.x1 < cpBox.x2
    /\ cpRegion' = PaddedBox(cpBox, cpSide, cpSide)
    /\ cpPc' = "detected"
    /\ UNCHANGED <<cpSide, cpBox, cpCoords, cpFrame>>

\* the region is accepted: the crop and its coordinates are returned
CpAccept ==
    /\ cpPc = "detected"
    /\ cpCoords' = CoordinatesOf(cpRegion)
    /\ cpPc' = "accepted"
    /\ UNCHANGED <<cpSide, cpBox, cpRegion, cpFrame>>

\* the region is rejected: None is returned
CpReject ==
    /\ cpPc = "detected"
    /\ cpPc' = "rejected"
    /\ UNCHANGED <<cpSide, cpBox, cpRegion, cpCoords, cpFrame>>

CropInit ==
    /\ JobIdle
    /\ SwInit
    /\ RdIdle
    /\ ErIdle
    /\ IsoIdle
    /\ PrIdle
    /\ DcIdle
    /\ RnIdle
    /\ OnIdle
    /\ cpSide \in 1..MaxSide
    /\ cpBox \in {b \in DetectorBoxes(cpSide) : b.x1 < b.x2 /\ b.y1 < b.y2}
    /\ CpRest

CropNext == CpDetect \/ CpAccept \/ CpReject

CropSpec == CropInit /\ [][CropNext]_vars

(***************************************************************************)
(* Order numbers: create_order generates the number from the count of the  *)
(* orders of the day and then inserts the order.                           *)
(***************************************************************************)
\* datetime.utcnow().strftime("%Y%m%d") of the calls, and the day before
Today == 1
Yesterday == 0

\* SELECT COUNT(*) FROM orders WHERE order_number LIKE 'KK-{today}-%'
CountToday(orders) == Cardinality({o \in orders : o.day = Today})

\* count = result['count'] + 1; f"KK-{today}-{count:04d}"
generate_order_number(orders) == OrderNumber(Today, CountToday(orders) + 1)

\* order_number TEXT UNIQUE NOT NULL
UniqueViolated(orders, number) == number \in orders

onFrame == <<jobVars, swVars, rdVars, erVars, isVars, prVars, dcVars,
             rnVars, cpVars>>

\* order_number = await OrderRepository.generate_order_number()
OnGenerate(c) ==
    /\ onPc[c] = "start"
    /\ onNumber' = [onNumber EXCEPT ![c] = generate_order_number(onOrders)]
    /\ onPc' = [onPc EXCEPT ![c] = "insert"]
    /\ UNCHANGED <<onOrders, onFrame>>

\* INSERT INTO orders and commit; a number already in the table raises
\* IntegrityError, which ep_create_order answers with 500
OnInsert(c) ==
    /\ onPc[c] = "insert"
    /\ IF UniqueViolated(onOrders, onNumber[c])
       THEN /\ onPc' = [onPc EXCEPT ![c] = "failed"]
            /\ onOrders' = onOrders
       ELSE /\ onPc' = [onPc EXCEPT ![c] = "created"]
            /\ onOrders' = onOrders \cup {onNumber[c]}
    /\ UNCHANGED <<onNumber, onFrame>>

OrderInit ==
    /\ JobIdle
    /\ SwInit
    /\ RdIdle
    /\ ErIdle
    /\ IsoIdle
    /\ PrIdle
    /\ DcIdle
    /\ RnIdle
    /\ CpIdle
    /\ \E a, b \in 0..MaxOrders :
          onOrders = {OrderNumber(Yesterday, i) : i \in 1..a}
                     \cup {OrderNumber(Today, i) : i \in 1..b}
    /\ OnRest

OrderNext == \E c \in OnCallers : OnGenerate(c) \/ OnInsert(c)

OrderSpec == OrderInit /\ [][OrderNext]_vars

(***************************************************************************)
(* Properties                                                              *)
(***************************************************************************)
Terminal == {"completed", "failed"}

\* C1: a job is created in queued and enters completed or failed only from
\* processing.
C1_StatusMachine ==
    [][ /\ (status = "none" /\ status' # "none" => status' = "queued")
        /\ (status' \in Terminal /\ status' # status => status = "processing")
      ]_vars

\* C2: completed and failed are terminal: once persisted, no later step of
\* the run changes the status.
C2_TerminalStatus ==
    [][(status \in Terminal) => (status' = status)]_vars

\* C3: a swap failure of some but not all matched images does not fail the
\* job: the swap fan-in raises only when every swap failed, and a completed
\* job composited exactly the images whose swap succeeded.
C3_PartialSwapFailure ==
    /\ (exc \in SwapErrors => \A p \in ValidResults : swap[p].st = "err")
    /\ (status = "completed" =>
            metadata = {p \in ValidResults : swap[p].st = "ok"})

\* C4: a job in which no extracted image matched (its matching fan-in raised
\* the no-match error) is never completed and ends failed with that message.
C4_NoMatchFails ==
    exc = "NoMatch" =>
        /\ status # "completed"
        /\ (pc \in {"done", "raised"} =>
                status = "failed" /\ errorMessage = "NoMatch")

\* C5: in a completed job every matched image has a swap result and a
\* composited output, and that output replaced the bytes of its shape.
C5_NoSilentDrop ==
    status = "completed" =>
        \A p \in ValidResults :
            /\ swap[p].st = "ok"
            /\ comp[p] = "ok"
            /\ p \in metadata
            /\ p \in docReplaced

\* C6: the orchestrator never raises to the background-task runner, and a
\* run in which a stage failed ends with the status failed.
C6_NeverRaises ==
    /\ pc # "raised"
    /\ (pc = "done" /\ exc # "none" => status = "failed")

\* C7: a FullBook job submits no swap request for an image on a page covered
\* by the preview; its entry is taken over from the preview.
C7_PreviewPagesReused ==
    kind = "FullBook" =>
        \A p \in Pictures :
            p[1] < PREVIEW_PAGES_COUNT =>
                /\ swap[p].st \in {"na", "new"}
                /\ (p \in metadata => p \in allMetadata)

\* C8: swap_face sleeps the poll interval before every poll, polls at most
\* MAX_RETRIES times, does not poll again after a poll answered completed or
\* failed, and times out exactly when MAX_RETRIES polls were all answered
\* with a non-terminal status.
C8_PollBound ==
    /\ swPolls <= MAX_RETRIES
    /\ swSlept = POLL_INTERVAL * swPolls
    /\ (swLast \in {"completed", "completed_nodl", "failed"} =>
            swTask.st \in {"ok", "err"})
    /\ (swTask.err = "Timeout" => swPolls = MAX_RETRIES /\ swLast = "pending")
    /\ (swTask.st \in {"ok", "err"} /\ swLast = "pending" =>
            swTask.err = "Timeout" /\ swPolls = MAX_RETRIES)
    /\ (swTask.st = "polling" /\ swPolls > 0 => swLast = "pending")

\* C8 witness: a call that timed out after MAX_RETRIES polls.
C8_Witness ==
    /\ swTask.st = "err"
    /\ swTask.err = "Timeout"
    /\ swPolls = MAX_RETRIES

\* C9: every started job eventually has the status completed or failed.
C9_Terminates ==
    [](Started => <>(status \in Terminal))

FinalPathsEmpty == swappedPaths = {} /\ finalDoc = "none"

NotFoundCodes == {404, 410}

C12_ExpiredIsNotFound ==
    rdResp.expired => rdResp.code \in NotFoundCodes
\* C13: the error message persisted with the failed status of a Preview or
\* a FullBook job is the truncated form of the exception's message, at most
\* 250 characters plus the ellipsis, never the raw message.
C13_TruncatedMessage ==
    erPc = "done" =>
        /\ erStored = truncate_error_message(erMsg, MAX_LENGTH)
        /\ Len(erStored.text) <= MAX_LENGTH + Len(Ellipsis)
\* C14: within one job no two fan-out tasks that are running at the same
\* time write or delete the same file path; the temporary crops of one
\* image's matching are not touched by the matching of another image.
IsoRunning(t) == isPc[t] # "done"

C14_DisjointPaths ==
    \A t, u \in IsoTasks :
        (t # u /\ IsoRunning(t) /\ IsoRunning(u)) =>
            isTouched[t] \cap isTouched[u] = {}
\* C17: when exactly one person region is detected the region is accepted
\* with distance 0.0, whatever the reference embedding, and no embedding
\* distance is computed.
C17_SingleRegion ==
    \A t \in IsoTasks :
        isRegions[t] = 1 =>
            /\ isCompared[t] = 0
            /\ isPc[t] \in {"crop", "done"}
            /\ isBest[t] = [distance |-> 0, idx |-> 0]
            /\ (isPc[t] = "done" =>
                    isResult[t] = [matched |-> TRUE, distance |-> 0,
                                   region |-> 0])

\* C17 witness: a call with one region has returned, under a reference
\* embedding that is at a distance from every face embedding
C17_Witness ==
    /\ isRef = PreviewRef(1)
    /\ \E t \in IsoTasks : isRegions[t] = 1 /\ isPc[t] = "done"

\* C18: when several regions are detected a match is returned only if the
\* best distance is strictly below SIMILARITY_THRESHOLD; a best distance equal
\* to or above it, or no region with an embedding, gives no match.
C18_StrictThreshold ==
    \A t \in IsoTasks :
        (isRegions[t] > 1 /\ isPc[t] = "done") =>
            (isResult[t].matched =>
                (isBest[t].idx # -1 /\ isBest[t].distance < SIMILARITY_THRESHOLD))
\* C15: whatever the order in which the matching, swap and composite tasks
\* complete, each entry of image_metadata pairs a (page, shape id) with a
\* composited file that derives from the image extracted at that very
\* (page, shape id), and from no other.
C15_PairingByIdentity ==
    prPc = "done" =>
        \A i \in 1..Len(prMetadata) :
            /\ prMetadata[i].pic \in Range(prExtracted)
            /\ ReadFile(prFiles, prMetadata[i].swapped_path)
                   = {prMetadata[i].pic}

\* C15 witness: two images were matched, the second swap completed before
\* the first, and the mapping was built.
C15_Witness ==
    /\ prPc = "done"
    /\ Len(prMetadata) = 2
    /\ prSwapOut[1] = TaskPath(2)
\* C16: once its row is created a job's record (status, error message,
\* paths, progress) is changed only by steps of the job's own background
\* task, never by the request handler that accepted the job.
RecordFields ==
    <<status, errorMessage, swappedPaths, finalDoc, charactersCompleted>>

TaskPosition == pc \notin {"absent", "invalid", "rejected"}

C16_SingleWriter ==
    [][(status # "none" /\ RecordFields' # RecordFields) => TaskPosition]_vars
\* C19: replace_images_in_pptx changes the image bytes of exactly the shapes
\* whose (page, shape id) is in the mapping; every other picture shape, also
\* one that shows the same picture as a mapped shape, keeps its bytes.
C19_ExactlyMappedShapes ==
    dcPc = "replaced" =>
        \A picture \in DocPictures(dcDoc) :
            dcBlob[picture.part] =
                IF Key(picture) \in dcMapping
                THEN NewBytes(picture.slide_idx, picture.shape_id)
                ELSE OrigBytes(picture.part)
\* the pictures on the pages the extraction includes
IncludedPictures ==
    {x \in DocPictures(dcDoc) : dcMax = NoLimit \/ x.slide_idx < dcMax}

Extracted == dcPc \in {"extracted", "replaced"}

\* C20, as stated: extraction returns exactly one record for each of the K
\* pictures on the included pages, nested ones too, with distinct
\* (page index, shape id), and none from a page beyond the limit.
C20_Original ==
    Extracted =>
        /\ Len(dcExtracted) = Cardinality(IncludedPictures)
        /\ Range(dcExtracted) = {Key(x) : x \in IncludedPictures}

\* C20: extraction returns one record for each picture on the included
\* pages whose extraction did not raise, nested ones too, each with a
\* distinct (page index, shape id): exactly K records when none raised, fewer
\* otherwise; under a page limit N only pictures of the first N pages.
C20_ExtractsEachPicture ==
    Extracted =>
        /\ Range(dcExtracted) =
              {Key(x) : x \in {y \in IncludedPictures :
                                 <<y.slide_idx, y.shape_id>> \notin dcSkipped}}
        /\ Cardinality(Range(dcExtracted)) = Len(dcExtracted)
        /\ Len(dcExtracted) <= Cardinality(IncludedPictures)
        /\ (dcSkipped \cap {<<x.slide_idx, x.shape_id>> : x \in IncludedPictures} = {}
               => Len(dcExtracted) = Cardinality(IncludedPictures))
        /\ (dcMax # NoLimit =>
               \A i \in 1..Len(dcExtracted) : dcExtracted[i].slide_idx < dcMax)

\* C20 witness: under a limit of one page, the picture nested in a group of
\* the first page is extracted, the top-level picture of that page raised
\* and was skipped, and the pictures of the second page are left out.
C20_Witness ==
    /\ Extracted
    /\ dcMax = 1
    /\ dcSkipped = {<<0, 1>>}
    /\ dcExtracted = <<[slide_idx |-> 0, shape_id |-> 3]>>
    /\ Cardinality(DocPictures(dcDoc)) = 4
\* C21: once one task of a fan-out has raised, no other task of the job is
\* left running: the session of the job is never closed, and the job never
\* marked failed, while one of its swap tasks is still in flight.
SwapInFlight(p) == swap[p].st \in {"new", "polling"}

C21_NoTaskOutlivesFailure ==
    (session = "closed" \/ status = "failed") =>
        \A p \in Pictures : ~SwapInFlight(p)
\* C22: the stages run in order with a fan-in between them: a swap task
\* exists only when every matching task has returned, a composite call only
\* when every swap has returned its result, substitution and rendering start
\* only when every composite has returned, and completed is persisted only
\* after rendering.
BeforeRender ==
    {"absent", "invalid", "rejected", "scheduled", "cartoon", "lookup", "copy",
     "text", "extract", "refs", "match", "swap", "composite", "progress",
     "replace", "render"}

C23_Original ==
    /\ \A t \in IsoTasks :
          (isPc[t] = "done" /\ isErr[t] # "none") => ~isResult[t].matched
    /\ (isJob = "failed" => \A t \in IsoTasks : ~isResult[t].matched)

\* C23 amended: an error that ends the matching of an image (the image cannot
\* be read, detection raises, an exception leaves the loop over the persons)
\* makes that image a no-match; an error of the embedding of one person only
\* leaves that person out; no error fails the job, which fails exactly when no
\* image matched
C23_ErrorsAreContained ==
    /\ \A t \in IsoTasks :
          /\ (isPc[t] = "done" /\ isErr[t] \in {"image", "fatal"})
                => ~isResult[t].matched
          /\ (isResult[t].matched /\ isRegions[t] > 1) =>
                /\ isCompared[t] > 0
                /\ isResult[t].region = isBest[t].idx
    /\ (isJob = "failed" => \A t \in IsoTasks : ~isResult[t].matched)
    /\ (isJob = "swap" => \E t \in IsoTasks : isResult[t].matched)
    /\ (isJob # "matching" => \A t \in IsoTasks : isPc[t] = "done")

\* C23 witness: one image was given up on an exception, another one matched
\* although the embedding of one of its persons raised, and the job goes on
C23_Witness ==
    /\ isJob = "swap"
    /\ \E t, u \in IsoTasks :
          /\ isErr[t] = "fatal"
          /\ ~isResult[t].matched
          /\ isErr[u] = "embedding"
          /\ isResult[u].matched

\* C24: when several regions are detected, the region selected is the one at
\* the least Euclidean distance over all the pairs of a region and a reference
\* of the set passed in by the workflow, Preview or FullBook: an image whose
\* least distance is below the threshold is matched, on the region attaining it
C24_MinimumOverPairs ==
    \A t \in IsoTasks :
        (isPc[t] = "done" /\ isRegions[t] > 1 /\ isErr[t] # "fatal") =>
            /\ isResult[t].matched =>
                  /\ isResult[t].region = isIdeal[t].idx
                  /\ isResult[t].distance = isIdeal[t].distance
            /\ (isIdeal[t].idx # -1
                  /\ isIdeal[t].distance < SIMILARITY_THRESHOLD)
                  => isResult[t].matched

\* C25: the temporary directory of the crops and the person crops in it no
\* longer exist when isolate_protagonist_face has returned, on every exit
\* path; stated for the moment when every call has returned, so that no other
\* call is still using the directory
C25_TempFilesRemoved ==
    (\A t \in IsoTasks : isPc[t] = "done") => TempPaths(isFiles) = {}

\* C26: once convert_slides_to_images has finished, by returning the page
\* images or by raising, the intermediate PDF it wrote in the output directory
\* no longer exists
C26_PdfRemoved ==
    rnPc \in {"returned", "raised"} => PdfFile \notin rnFiles

\* the padding of PADDING_PERCENT of a size, rounded down or up
PercentPads(size) ==
    {(size * PADDING_PERCENT) \div 100, (size * PADDING_PERCENT + 99) \div 100}

\* C28: on acceptance the coordinates returned are the box of the matched
\* region expanded on each side by PADDING_PERCENT of the size of the box and
\* clamped to the image, hence 0 <= left < right <= width and
\* 0 <= top < bottom <= height
C28_PaddedCoordinates ==
    cpPc = "accepted" =>
        /\ \E px \in PercentPads(cpBox.x2 - cpBox.x1) :
              /\ cpCoords.left = Max2(0, cpBox.x1 - px)
              /\ cpCoords.right = Min2(cpSide, cpBox.x2 + px)
        /\ \E py \in PercentPads(cpBox.y2 - cpBox.y1) :
              /\ cpCoords.top = Max2(0, cpBox.y1 - py)
              /\ cpCoords.bottom = Min2(cpSide, cpBox.y2 + py)
        /\ 0 <= cpCoords.left /\ cpCoords.left < cpCoords.right
        /\ cpCoords.right <= cpSide
        /\ 0 <= cpCoords.top /\ cpCoords.top < cpCoords.bottom
        /\ cpCoords.bottom <= cpSide

\* C29: concurrent create_order calls of one day never obtain the same order
\* number: each of them persists its order, under a number of its own, and
\* none fails because of another
C29_DistinctOrderNumbers ==
    /\ \A c \in OnCallers : onPc[c] # "failed"
    /\ \A c, d \in OnCallers :
          (c # d /\ onPc[c] = "created" /\ onPc[d] = "created")
              => onNumber[c] # onNumber[d]

\* the pictures that replace_images_in_pptx finds under the (slide_idx,
\* shape_id) of a record
LocatedBy(prs, record) == {x \in DocPictures(prs) : Key(x) = record}

\* the pictures with the shape id of a record on the slide that the
\* extraction was processing under the record's slide_idx
ExtractedFrom(prs, max_slides, record) ==
    {x \in PicturesIn(DocSlidesToProcess(prs, max_slides)[record.slide_idx + 1],
                      record.slide_idx) : x.shape_id = record.shape_id}

\* C27: extraction then substitution round-trips on the identity of the
\* shapes: the (page index, shape id) of every record returned by
\* extract_images_from_slides locates, in replace_images_in_pptx on the same
\* document, exactly the shape the record was extracted from and no other,
\* for nested shapes and under a page limit too
C27_RoundTrip ==
    Extracted =>
        \A i \in 1..Len(dcExtracted) :
            /\ Cardinality(LocatedBy(dcDoc, dcExtracted[i])) = 1
            /\ LocatedBy(dcDoc, dcExtracted[i])
                  = ExtractedFrom(dcDoc, dcMax, dcExtracted[i])
            /\ (dcPc = "replaced" /\ dcExtracted[i] \notin dcMapping) =>
                  \A part \in ImageParts :
                      dcBlob[part] # NewBytes(dcExtracted[i].slide_idx,
                                              dcExtracted[i].shape_id)

\* C27 witness: under a limit of one page the picture nested in the group of
\* the first page was extracted, and the replacement found it under its record
\* and wrote its image part, a part that no other picture uses
C27_Witness ==
    /\ dcPc = "replaced"
    /\ dcMax = 1
    /\ dcMapping = {[slide_idx |-> 0, shape_id |-> 3]}
    /\ \E x \in DocPictures(dcDoc) :
          /\ Key(x) = [slide_idx |-> 0, shape_id |-> 3]
          /\ dcBlob[x.part] = NewBytes(0, 3)
          /\ \A y \in DocPictures(dcDoc) : y.part = x.part => y = x

\* C30: the preview-ready notification of a Preview is dispatched only once
\* the status of that Preview is persisted as completed, and none is
\* dispatched for a Preview whose job failed before reaching completed: the
\* dispatch happens under the status completed, a job that fails from another
\* status has dispatched nothing, and nothing is dispatched after the failure
C30_NotifyAfterCompleted ==
    [][/\ (notified' /\ ~notified) =>
              (kind = "Preview" /\ status = "completed" /\ status' = "completed")
       /\ (status' = "failed" /\ status \notin {"completed", "failed"})
              => ~notified'
       /\ status = "failed" => notified' = notified]_vars

\* C30 witness: a Preview job has ended completed with its notifications
\* dispatched
C30_Witness ==
    /\ kind = "Preview"
    /\ pc = "done"
    /\ status = "completed"
    /\ notified

====
